---------------------------- MODULE Spec2Model ----------------------------
(* Course Registration API (fastapi_course_reg): the three routers            *)
(* students.py, courses.py, registrations.py over the Data Store.            *)
(*                                                                           *)
(* Every handler is an async function; each `await db....` is one step       *)
(* against the store, and requests in different slots interleave between     *)
(* steps. A request occupies a slot from its first step to its response.     *)
EXTENDS Integers, Sequences, FiniteSets, TLC

VARIABLES
    students,       \* Student rows      [id, name, email]
    courses,        \* Course rows       [id, title, code, units]
    registrations,  \* Registration rows [id, studentId, courseId]
    pc,             \* pc[p]: where the request in slot p stands
    body,           \* body[p]: the validated request body of the request in slot p
    student,        \* register_student's local `student`
    course,         \* register_student's local `course`
    resp,           \* the response most recently sent
    obs,            \* history: what the store held when the request in slot p looked
    okPairs         \* history: (student_id, course_id) pairs some request registered with 200

vars == <<students, courses, registrations, pc, body, student, course, resp, obs, okPairs>>

-----------------------------------------------------------------------------
(* Bounds and inputs *)

\* Course rows the store may hold (create_course has no natural limit).
MaxCourses == 2
\* Registration rows the store may hold, counting those of requests in flight.
MaxRegistrations == 2
\* Request slots: requests handled concurrently. A request takes the first free slot.
Procs == {1, 2}

\* An e-mail address is the sequence of its parts around "@".
AdaMail == <<"ada", "example.com">>
BobMail == <<"bob", "example.com">>
BadMail == <<"ada.example.com">>

StudentBodies ==
    { [name |-> "Ada", email |-> AdaMail],
      [name |-> "Bob", email |-> BobMail],
      [name |-> "Eve", email |-> AdaMail],
      [name |-> "Ada", email |-> BadMail] }

CourseBodies ==
    { [title |-> "Algorithms", code |-> "CS201", units |-> 3] }

\* Ids a register request may name.
StudentIds == {1, 2}
CourseIds == {1, 2}
RegistrationBodies == [student_id : StudentIds, course_id : CourseIds]

\* Python's None
None == [none |-> TRUE]
NoObs  == [noStudent |-> FALSE, noCourse |-> FALSE, emailUsed |-> FALSE, afterOk |-> FALSE]
NoResp == [op |-> "none", status |-> 0, detail |-> "",
           request |-> None, result |-> <<>>, seen |-> NoObs]

-----------------------------------------------------------------------------
(* Validation layer *)

\* StudentCreate: name: str, email: EmailStr.
ValidStudentCreate(b) ==
    /\ Len(b.email) = 2
    /\ b.email[1] # ""
    /\ b.email[2] # ""

-----------------------------------------------------------------------------
(* Data Store *)

Max(S) == CHOOSE x \in S : \A y \in S : y <= x

\* autoincrement primary key
NextId(table) == IF table = {} THEN 1 ELSE Max({r.id : r \in table}) + 1

\* rows of a table as find_many returns them
RECURSIVE ById(_)
ById(table) ==
    IF table = {} THEN <<>>
    ELSE LET r == CHOOSE x \in table : \A y \in table : x.id <= y.id
         IN  <<r>> \o ById(table \ {r})

\* find_unique / find_first give the row or None.
FindStudentById(id) ==
    IF \E s \in students : s.id = id
    THEN CHOOSE s \in students : s.id = id
    ELSE None

FindCourseById(id) ==
    IF \E c \in courses : c.id = id
    THEN CHOOSE c \in courses : c.id = id
    ELSE None

FindStudentByEmail(email) ==
    IF \E s \in students : s.email = email
    THEN CHOOSE s \in students : s.email = email
    ELSE None

\* Mutant: the duplicate lookup filters on the student alone.
FindFirstRegistrationOfStudent(sid, cid) ==
    LET m == {r \in registrations : r.studentId = sid}
    IN  IF m = {} THEN None ELSE CHOOSE r \in m : \A q \in m : r.id <= q.id

FindFirstRegistration(sid, cid) ==
    LET m == {r \in registrations : r.studentId = sid /\ r.courseId = cid}
    IN  IF m = {} THEN None ELSE CHOOSE r \in m : \A q \in m : r.id <= q.id

\* Mutant: the email column without its unique index.
NoUniqueEmailViolation(data) == FALSE

\* Student.email is a unique column: an insert of a used email is rejected.
UniqueEmailViolation(data) == \E s \in students : s.email = data.email

NewStudentRow(data) ==
    [id |-> NextId(students), name |-> data.name, email |-> data.email]

NewCourseRow(data) ==
    [id |-> NextId(courses), title |-> data.title, code |-> data.code, units |-> data.units]

NewRegistrationRow(data) ==
    [id |-> NextId(registrations), studentId |-> data.studentId, courseId |-> data.courseId]

\* Mutant: the relation filter lost, every registration joined to every student.
IncludeAllRegistrations(s) ==
    LET rows == ById(registrations)
    IN  [id |-> s.id, name |-> s.name, email |-> s.email,
         registeredCourses |->
            [i \in 1..Len(rows) |->
                [id |-> rows[i].id, studentId |-> rows[i].studentId,
                 courseId |-> rows[i].courseId,
                 course |-> FindCourseById(rows[i].courseId)]]]

\* include={"registeredCourses": {"include": {"course": True}}}
IncludeRegisteredCourses(s) ==
    LET rows == ById({r \in registrations : r.studentId = s.id})
    IN  [id |-> s.id, name |-> s.name, email |-> s.email,
         registeredCourses |->
            [i \in 1..Len(rows) |->
                [id |-> rows[i].id, studentId |-> rows[i].studentId,
                 courseId |-> rows[i].courseId,
                 course |-> FindCourseById(rows[i].courseId)]]]

\* include={"student": True, "course": True}
IncludeStudentCourse(r) ==
    [id |-> r.id, studentId |-> r.studentId, courseId |-> r.courseId,
     student |-> FindStudentById(r.studentId),
     course |-> FindCourseById(r.courseId)]

-----------------------------------------------------------------------------
(* routers/students.py *)

transform_student(s) ==
    LET regs == s.registeredCourses
        list == IF regs # <<>> THEN [i \in 1..Len(regs) |-> regs[i].course] ELSE <<>>
    IN  [id |-> s.id, name |-> s.name, email |-> s.email, registeredCourses |-> list]

Response(op, status, detail, request, result, seen) ==
    [op |-> op, status |-> status, detail |-> detail,
     request |-> request, result |-> result, seen |-> seen]

\* Slot p is the first free slot.
Free(p) ==
    /\ pc[p] = "idle"
    /\ \A q \in Procs : q < p => pc[q] # "idle"

Finish(p) ==
    /\ pc' = [pc EXCEPT ![p] = "idle"]
    /\ body' = [body EXCEPT ![p] = None]
    /\ student' = [student EXCEPT ![p] = None]
    /\ course' = [course EXCEPT ![p] = None]
    /\ obs' = [obs EXCEPT ![p] = NoObs]

\* Mutant: the duplicate-email check dropped.
EmailNeverRegistered(existing) == FALSE

EmailAlreadyRegistered(existing) == existing # None

\* POST /students/ : validation, then lines 20-22
create_student_find(p) ==
    /\ Free(p)
    /\ \E b \in StudentBodies :
        IF ~ValidStudentCreate(b)
        THEN /\ resp' = Response("create_student", 422, "invalid body", b, None, NoObs)
             /\ UNCHANGED <<students, courses, registrations, pc, body, student, course,
                            obs, okPairs>>
        ELSE LET existing == FindStudentByEmail(b.email)
                 seen == [NoObs EXCEPT !.emailUsed = \E s \in students : s.email = b.email]
             IN  IF EmailAlreadyRegistered(existing)
                 THEN /\ resp' = Response("create_student", 400,
                                          "Email already registered", b, None, seen)
                      /\ UNCHANGED <<students, courses, registrations, pc, body, student,
                                     course, obs, okPairs>>
                 ELSE /\ pc' = [pc EXCEPT ![p] = "cs_create"]
                      /\ body' = [body EXCEPT ![p] = b]
                      /\ obs' = [obs EXCEPT ![p] = seen]
                      /\ UNCHANGED <<students, courses, registrations, student, course,
                                     resp, okPairs>>

\* POST /students/ : lines 24-28
create_student_create(p) ==
    /\ pc[p] = "cs_create"
    /\ IF UniqueEmailViolation(body[p])
       THEN /\ resp' = Response("create_student", 500, "Internal Server Error",
                                body[p], None, obs[p])
            /\ UNCHANGED students
       ELSE LET row == NewStudentRow(body[p])
            IN  /\ students' = students \cup {row}
                /\ resp' = Response("create_student", 200, "", body[p],
                                    transform_student(IncludeRegisteredCourses(row)), obs[p])
    /\ Finish(p)
    /\ UNCHANGED <<courses, registrations, okPairs>>

\* GET /students/ : lines 31-36
list_students(p) ==
    /\ Free(p)
    /\ LET found == ById(students)
       IN  resp' = Response("list_students", 200, "", None,
                            [i \in 1..Len(found) |->
                                transform_student(IncludeRegisteredCourses(found[i]))],
                            NoObs)
    /\ UNCHANGED <<students, courses, registrations, pc, body, student, course, obs, okPairs>>

-----------------------------------------------------------------------------
(* routers/courses.py *)

\* Mutant: an upsert on code, replacing the row that holds the same code.
create_course_upsert(p) ==
    /\ Free(p)
    /\ Cardinality(courses) < MaxCourses
    /\ \E b \in CourseBodies :
        LET row == NewCourseRow(b)
        IN  /\ courses' = {c \in courses : c.code # b.code} \cup {row}
            /\ resp' = Response("create_course", 200, "", b, row, NoObs)
    /\ UNCHANGED <<students, registrations, pc, body, student, course, obs, okPairs>>

\* Mutant: a duplicate-code check like create_student's duplicate-email check.
create_course_unique_code(p) ==
    /\ Free(p)
    /\ Cardinality(courses) < MaxCourses
    /\ \E b \in CourseBodies :
        IF \E c \in courses : c.code = b.code
        THEN /\ resp' = Response("create_course", 400, "Code already exists", b, None, NoObs)
             /\ UNCHANGED courses
        ELSE LET row == NewCourseRow(b)
             IN  /\ courses' = courses \cup {row}
                 /\ resp' = Response("create_course", 200, "", b, row, NoObs)
    /\ UNCHANGED <<students, registrations, pc, body, student, course, obs, okPairs>>

\* POST /courses/ : line 9
create_course(p) ==
    /\ Free(p)
    /\ Cardinality(courses) < MaxCourses
    /\ \E b \in CourseBodies :
        LET row == NewCourseRow(b)
        IN  /\ courses' = courses \cup {row}
            /\ resp' = Response("create_course", 200, "", b, row, NoObs)
    /\ UNCHANGED <<students, registrations, pc, body, student, course, obs, okPairs>>

\* GET /courses/ : line 13
list_courses(p) ==
    /\ Free(p)
    /\ resp' = Response("list_courses", 200, "", None, ById(courses), NoObs)
    /\ UNCHANGED <<students, courses, registrations, pc, body, student, course, obs, okPairs>>

-----------------------------------------------------------------------------
(* routers/registrations.py *)

InRegister == {q \in Procs : pc[q] \in {"rg_course", "rg_existing", "rg_create"}}

\* Mutant: `and` for `or`.
NotFoundBoth(st, co) == st = None /\ co = None

\* Mutant: the course forgotten in the check.
NotFoundStudent(st, co) == st = None

\* if not student or not course
NotFound(st, co) == st = None \/ co = None

\* if existing
AlreadyRegistered(existing) == existing # None

\* POST /registrations/ : line 10
register_student_find_student(p) ==
    /\ Free(p)
    /\ Cardinality(registrations) + Cardinality(InRegister) < MaxRegistrations
    /\ \E b \in RegistrationBodies :
        /\ student' = [student EXCEPT ![p] = FindStudentById(b.student_id)]
        /\ body' = [body EXCEPT ![p] = b]
        /\ obs' = [obs EXCEPT ![p] =
                     [NoObs EXCEPT !.noStudent = ~\E s \in students : s.id = b.student_id,
                                   !.afterOk = <<b.student_id, b.course_id>> \in okPairs]]
    /\ pc' = [pc EXCEPT ![p] = "rg_course"]
    /\ UNCHANGED <<students, courses, registrations, course, resp, okPairs>>

\* POST /registrations/ : lines 11-13
register_student_find_course(p) ==
    /\ pc[p] = "rg_course"
    /\ LET found == FindCourseById(body[p].course_id)
           seen == [obs[p] EXCEPT !.noCourse = ~\E c \in courses : c.id = body[p].course_id]
       IN  IF NotFound(student[p], found)
           THEN /\ resp' = Response("register_student", 404,
                                    "Student or Course not found", body[p], None, seen)
                /\ Finish(p)
           ELSE /\ course' = [course EXCEPT ![p] = found]
                /\ obs' = [obs EXCEPT ![p] = seen]
                /\ pc' = [pc EXCEPT ![p] = "rg_existing"]
                /\ UNCHANGED <<body, student, resp>>
    /\ UNCHANGED <<students, courses, registrations, okPairs>>

\* POST /registrations/ : lines 16-20
register_student_find_existing(p) ==
    /\ pc[p] = "rg_existing"
    /\ LET existing == FindFirstRegistration(body[p].student_id, body[p].course_id)
       IN  IF AlreadyRegistered(existing)
           THEN /\ resp' = Response("register_student", 400, "Already registered",
                                    body[p], None, obs[p])
                /\ Finish(p)
           ELSE /\ pc' = [pc EXCEPT ![p] = "rg_create"]
                /\ UNCHANGED <<body, student, course, obs, resp>>
    /\ UNCHANGED <<students, courses, registrations, okPairs>>

\* POST /registrations/ : lines 23-28
\* The insert is unconditional: the duplicate lookup above (find_first over two plain
\* columns) is the only guard the handler has, and the store is given no unique index
\* on (studentId, courseId).
register_student_create(p) ==
    /\ pc[p] = "rg_create"
    /\ LET row == NewRegistrationRow([studentId |-> body[p].student_id,
                                      courseId |-> body[p].course_id])
       IN  /\ registrations' = registrations \cup {row}
           /\ resp' = Response("register_student", 200, "", body[p],
                               IncludeStudentCourse(row), obs[p])
    /\ okPairs' = okPairs \cup {<<body[p].student_id, body[p].course_id>>}
    /\ Finish(p)
    /\ UNCHANGED <<students, courses>>

-----------------------------------------------------------------------------
(* The application: main.py mounts the three routers *)

Init ==
    /\ students = {}
    /\ courses = {}
    /\ registrations = {}
    /\ pc = [p \in Procs |-> "idle"]
    /\ body = [p \in Procs |-> None]
    /\ student = [p \in Procs |-> None]
    /\ course = [p \in Procs |-> None]
    /\ resp = NoResp
    /\ obs = [p \in Procs |-> NoObs]
    /\ okPairs = {}

Next ==
    \E p \in Procs :
        \/ create_student_find(p)
        \/ create_student_create(p)
        \/ list_students(p)
        \/ create_course(p)
        \/ list_courses(p)
        \/ register_student_find_student(p)
        \/ register_student_find_course(p)
        \/ register_student_find_existing(p)
        \/ register_student_create(p)

Spec == Init /\ [][Next]_vars

-----------------------------------------------------------------------------
(* Properties *)

TablesUnchanged == UNCHANGED <<students, courses, registrations>>

Ids(table) == {r.id : r \in table}

SamePair(r1, r2) == r1.studentId = r2.studentId /\ r1.courseId = r2.courseId

\* Slot p sends its response in this step, having taken an earlier step.
Completes(p) == pc[p] # "idle" /\ pc'[p] = "idle"

\* C1: in every reachable state, under any interleaving of register requests, no two
\* Registration rows have the same (studentId, courseId) pair.
C1_UniqueRegistrationPairs ==
    \A r1, r2 \in registrations : SamePair(r1, r2) => r1 = r2

\* C2: in every reachable state, under any interleaving of create_student requests, no
\* two Student rows have the same email.
C2_UniqueStudentEmails ==
    \A s1, s2 \in students : s1.email = s2.email => s1 = s2

\* Two create_student requests raced on one email: the second passed its lookup and
\* was rejected by the store.
C2_Witness ==
    /\ resp.op = "create_student"
    /\ resp.status = 500
    /\ ~resp.seen.emailUsed
    /\ \E s \in students : s.email = resp.request.email

\* C3: a register request whose student lookup or course lookup finds no row ends with
\* 404 at line 13, no step of it changes a table, and it never reaches the duplicate
\* lookup or the create step.
C3_NotFoundTouchesNothing ==
    [][\A p \in Procs :
        /\ (pc[p] = "idle" /\ pc'[p] = "rg_course") => TablesUnchanged
        /\ ( /\ pc[p] = "rg_course"
             /\ pc'[p] # "rg_course"
             /\ \/ obs[p].noStudent
                \/ ~\E c \in courses : c.id = body[p].course_id )
           => /\ pc'[p] = "idle"
              /\ resp'.op = "register_student"
              /\ resp'.status = 404
              /\ resp'.request = body[p]
              /\ TablesUnchanged
        /\ pc'[p] \in {"rg_existing", "rg_create"}
           => ~obs'[p].noStudent /\ ~obs'[p].noCourse
      ]_vars

\* A register request for an existing student and a missing course got 404.
C3_Witness ==
    /\ resp.op = "register_student"
    /\ resp.status = 404
    /\ resp.seen.noCourse
    /\ ~resp.seen.noStudent

\* C4: a register request that found its student and its course and completes before
\* any request for the pair has succeeded, succeeds and adds exactly one row, for that
\* pair; a register request that starts after a request for the pair has succeeded
\* ends with 400 "Already registered" and adds no row.
C4_RegistersOnceThenConflict ==
    [][\A p \in Procs :
        /\ (Completes(p) /\ pc[p] \in {"rg_existing", "rg_create"})
           => LET pair == <<body[p].student_id, body[p].course_id>>
              IN  /\ pair \notin okPairs
                     => /\ resp'.status = 200
                        /\ resp'.request = body[p]
                        /\ Cardinality(registrations') = Cardinality(registrations) + 1
                        /\ registrations \subseteq registrations'
                        /\ \A r \in registrations' \ registrations :
                              /\ r.studentId = pair[1]
                              /\ r.courseId = pair[2]
                              /\ resp'.result.id = r.id
                  /\ obs[p].afterOk
                     => /\ resp'.status = 400
                        /\ resp'.detail = "Already registered"
                        /\ registrations' = registrations
        /\ (pc'[p] # pc[p] /\ (obs[p].afterOk \/ obs'[p].afterOk))
           => /\ registrations' = registrations
              /\ pc'[p] # "rg_create"
      ]_vars

\* A request that started after the pair was registered got 400.
C4_Witness ==
    /\ resp.op = "register_student"
    /\ resp.status = 400
    /\ resp.seen.afterOk
    /\ Cardinality(registrations) = 1

\* C5: a create_student request whose email is the email of a Student row when the
\* handler looks it up ends there with 400 "Email already registered" and the Student
\* rows are unchanged; it never reaches the create step.
C5_UsedEmailConflicts ==
    [][/\ ( /\ resp' # resp
            /\ pc' = pc
            /\ resp'.op = "create_student"
            /\ \E s \in students : s.email = resp'.request.email )
          => /\ resp'.status = 400
             /\ resp'.detail = "Email already registered"
             /\ students' = students
       /\ \A p \in Procs :
            (pc[p] = "idle" /\ pc'[p] = "cs_create")
            => ~\E s \in students : s.email = body'[p].email
      ]_vars

\* A request with another name and a used email got 400.
C5_Witness ==
    /\ resp.op = "create_student"
    /\ resp.status = 400
    /\ \E s \in students : s.email = resp.request.email /\ s.name # resp.request.name

\* C6: every create_student request with a valid body whose email no Student row holds
\* when the handler looks it up succeeds, and the id it returns is that of a Student row
\* with the request's name and email.
C6_FreshEmailSucceeds ==
    ( /\ resp.op = "create_student"
      /\ ValidStudentCreate(resp.request)
      /\ ~resp.seen.emailUsed )
    => /\ resp.status = 200
       /\ \E s \in students :
            /\ s.id = resp.result.id
            /\ s.name = resp.request.name
            /\ s.email = resp.request.email

\* C7: in every reachable state every Registration row refers to a Student row and to a
\* Course row of the store.
C7_RegistrationsRefer ==
    \A r \in registrations :
        /\ \E s \in students : s.id = r.studentId
        /\ \E c \in courses : c.id = r.courseId

\* A registration was created while another student and another course exist.
C7_Witness ==
    /\ resp.op = "register_student"
    /\ resp.status = 200
    /\ Cardinality(students) = 2
    /\ Cardinality(courses) = 2

Count(seq, x) == Cardinality({i \in 1..Len(seq) : seq[i] = x})

\* C8: list_students returns one entry per Student row and no others, and each entry's
\* registeredCourses holds a Course record once per Registration row of that student
\* and course, and nothing else.
C8_ListStudentsMatchesStore ==
    resp.op = "list_students"
    => LET list == resp.result
       IN  /\ Len(list) = Cardinality(students)
           /\ \A s \in students :
                Cardinality({i \in 1..Len(list) :
                    /\ list[i].id = s.id
                    /\ list[i].name = s.name
                    /\ list[i].email = s.email}) = 1
           /\ \A i \in 1..Len(list) :
                LET mine == {r \in registrations : r.studentId = list[i].id}
                IN  /\ Len(list[i].registeredCourses) = Cardinality(mine)
                    /\ \A j \in 1..Len(list[i].registeredCourses) :
                          list[i].registeredCourses[j] \in courses
                    /\ \A c \in courses :
                          Count(list[i].registeredCourses, c)
                            = Cardinality({r \in mine : r.courseId = c.id})

\* Two students were listed, one with a registration and one with none.
C8_Witness ==
    /\ resp.op = "list_students"
    /\ Len(resp.result) = 2
    /\ \E i, j \in 1..2 :
        /\ resp.result[i].registeredCourses = <<>>
        /\ Len(resp.result[j].registeredCourses) >= 1

\* C9: a row of any table stays, with the same fields, in every later state; a step
\* adds at most one row, with a fresh id, to the table of the request that takes it, and
\* the list operations change no table.
C9_RowsOnlyAdded ==
    [][/\ students \subseteq students'
       /\ courses \subseteq courses'
       /\ registrations \subseteq registrations'
       /\ \A r \in students' \ students : r.id \notin Ids(students)
       /\ \A r \in courses' \ courses : r.id \notin Ids(courses)
       /\ \A r \in registrations' \ registrations : r.id \notin Ids(registrations)
       /\   Cardinality(students' \ students) + Cardinality(courses' \ courses)
          + Cardinality(registrations' \ registrations) <= 1
       /\ students' # students => resp'.op = "create_student"
       /\ courses' # courses => resp'.op = "create_course"
       /\ registrations' # registrations => resp'.op = "register_student"
       /\ resp'.op \in {"list_students", "list_courses"} => TablesUnchanged
      ]_vars

\* All three tables hold rows and a list operation has just answered.
C9_Witness ==
    /\ students # {}
    /\ Cardinality(courses) = 2
    /\ registrations # {}
    /\ resp.op = "list_courses"

\* C10: create_course always answers 200 and adds exactly one Course row, with a fresh
\* id and the body's fields, also when a row with the same code or the same title, code
\* and units exists; list_courses returns every Course row.
C10_CreateCourseUnconditional ==
    [][/\ (resp' # resp /\ resp'.op = "create_course")
          => /\ resp'.status = 200
             /\ resp'.result.id \notin Ids(courses)
             /\ resp'.result.title = resp'.request.title
             /\ resp'.result.code = resp'.request.code
             /\ resp'.result.units = resp'.request.units
             /\ courses' = courses \cup {resp'.result}
             /\ Cardinality(courses') = Cardinality(courses) + 1
       /\ resp'.op = "list_courses"
          => /\ Len(resp'.result) = Cardinality(courses')
             /\ {resp'.result[i] : i \in 1..Len(resp'.result)} = courses'
      ]_vars

\* list_courses returned two rows that differ in their id alone.
C10_Witness ==
    /\ resp.op = "list_courses"
    /\ \E i, j \in 1..Len(resp.result) :
        /\ resp.result[i].id # resp.result[j].id
        /\ resp.result[i].title = resp.result[j].title
        /\ resp.result[i].code = resp.result[j].code
        /\ resp.result[i].units = resp.result[j].units

=============================================================================
